---- MODULE Spec2Model ----
(***************************************************************************)
(* The crash-proof request queue of the gateway (app/models/queue.py),     *)
(* as a state machine.  One CrashProofQueue object, its persistent store   *)
(* (the queue_state collection), the callers of its coroutines and its     *)
(* background timeout loop.                                                *)
(*                                                                         *)
(* Scheduling is asyncio's: a coroutine runs without interruption up to    *)
(* its next await.  Every queue operation has exactly one suspension       *)
(* point, the update_one of _persist_request, and the document it writes   *)
(* (request.to_dict()) is built before the coroutine suspends.  So each    *)
(* operation is one atomic in-memory step that leaves a write in flight,   *)
(* and the write lands (or raises, which _persist_request logs) in a       *)
(* later step; other coroutines run in between.                            *)
(***************************************************************************)
EXTENDS Integers, Sequences, FiniteSets, TLC

VARIABLES
    max_concurrent,   \* self.max_concurrent
    max_waiting,      \* self.max_waiting
    processing,       \* self.processing: the dict's keys, in insertion order
    waiting,          \* self.waiting: the deque, as request ids
    req,              \* the QueuedRequest objects ever created, by request_id
    total_processed,  \* self.total_processed
    total_failed,     \* self.total_failed
    total_timeout,    \* self.total_timeout
    is_running,       \* self.is_running
    store,            \* the queue_state collection: request_id -> document
    inflight,         \* update_one calls issued and not yet finished
    loop_pc,          \* _recovery_loop: "off", "sleep" or "persist"
    sleep_until,      \* when the loop's asyncio.sleep(60) ends
    timeout_ids,      \* the loop's local timeout_ids still to handle
    now,              \* datetime.utcnow(), in seconds
    next_id,          \* ids handed out so far + 1 (stands for uuid4)
    ret,              \* history: what the call made in the latest step returns
    dispatches,       \* history: how often dequeue returned each request
    dispatched,       \* history: request ids in order of first dispatch
    returned,         \* history: request ids in order of enqueue's return
    crashes,          \* history: how often the process has crashed
    models,           \* ModelManager.models: name -> ModelInfo
    current_model,    \* ModelManager.current_model
    switching_lock,   \* ModelManager.switching_lock: the task holding it
    tasks,            \* the callers of the manager: each one's call and position
    children,         \* the child processes alive, by pid, each with its backend
    next_pid,         \* pids handed out so far + 1
    last_switch,      \* AutoSwitcher.last_switch
    switcher          \* _switching_loop: position, end of sleep, locals

vars == << max_concurrent, max_waiting, processing, waiting, req,
           total_processed, total_failed, total_timeout, is_running,
           store, inflight, loop_pc, sleep_until, timeout_ids, now,
           next_id, ret, dispatches, dispatched, returned, crashes,
           models, current_model, switching_lock, tasks, children, next_pid,
           last_switch, switcher >>

----------------------------------------------------------------------------
(* Bounds of the model *)

MaxReq == 2          \* requests admitted in one run
MaxInflight == 2     \* coroutines suspended in _persist_request at once
MaxTicks == 1        \* clock steps in one run
SweepReq == 3        \* requests admitted in a run of SpecSweep
SweepTicks == 2      \* clock steps in a run of SpecSweep
ScenarioReq == 6     \* requests admitted in a run of SpecScenario
MaxConcurrent == 2   \* largest max_concurrent tried
MaxWaiting == 2      \* largest max_waiting tried
MaxCrashes == 1      \* crashes of the process in one run

(* Program constants *)

RecoveryInterval == 60     \* asyncio.sleep(60) of _recovery_loop
DefaultMaxRetries == 3     \* QueuedRequest.max_retries
DefaultMaxWaiting == 10    \* QueueConfig.max_waiting

TickStep == RecoveryInterval
MaxSpawns == 2
switch_cooldown_minutes == 2
SwitcherTicks == 5
ContendTicks == 2    \* clock steps in a run of SpecContend
Timeouts == {RecoveryInterval \div 2}
MaxCount == 3
min_requests_for_switch == 2

----------------------------------------------------------------------------
(* Types of queue.py *)

QUEUED == "queued"
PROCESSING == "processing"
COMPLETED == "completed"
FAILED == "failed"
TIMEOUT == "timeout"
CANCELLED == "cancelled"

RequestStatus == {QUEUED, PROCESSING, COMPLETED, FAILED, TIMEOUT, CANCELLED}

LOW == "low"
NORMAL == "normal"
HIGH == "high"

Priority == {LOW, NORMAL, HIGH}

\* Optional[datetime]: None is the empty tuple, a datetime t is <<t>>.
None == << >>
Some(t) == << t >>

\* QueuedRequest(...) as built by enqueue: the dataclass defaults for the
\* fields enqueue does not pass.
QueuedRequest(id, priority, timeout) ==
    [ request_id      |-> id,
      priority        |-> priority,
      status          |-> QUEUED,
      created_at      |-> now,
      started_at      |-> None,
      completed_at    |-> None,
      timeout_seconds |-> timeout,
      retry_count     |-> 0,
      max_retries     |-> DefaultMaxRetries ]

\* datetime.isoformat() / datetime.fromisoformat(): the stored form of a
\* timestamp is a string, written here as a tagged pair.
isoformat(t) == << "iso", t >>
fromisoformat(s) == s[2]

\* QueuedRequest.to_dict
to_dict(r) ==
    [ r EXCEPT !.created_at   = isoformat(r.created_at),
               !.started_at   = IF r.started_at # None
                                THEN isoformat(r.started_at[1]) ELSE None,
               !.completed_at = IF r.completed_at # None
                                THEN isoformat(r.completed_at[1]) ELSE None ]

\* The fields of the dataclass QueuedRequest kept in this model: the
\* keyword arguments its __init__ accepts.
Fields ==
    { "request_id", "priority", "status", "created_at", "started_at",
      "completed_at", "timeout_seconds", "retry_count", "max_retries" }

\* What from_dict raises when cls(**data) is given a key that is no field.
TypeError == [ raised |-> "TypeError" ]

\* from_dict that drops the keys that are no fields before cls(**data)
from_dict_known_keys(d) ==
    LET data == [ k \in DOMAIN d \cap Fields |-> d[k] ]
    IN  [ data EXCEPT
            !.created_at   = fromisoformat(d.created_at),
            !.started_at   = IF d.started_at # None
                             THEN Some(fromisoformat(d.started_at)) ELSE None,
            !.completed_at = IF d.completed_at # None
                             THEN Some(fromisoformat(d.completed_at)) ELSE None ]

\* QueuedRequest.from_dict: the timestamps are parsed in place, then
\* cls(**data) is called with every key of the document.
from_dict(d) ==
    LET data == [ d EXCEPT
                    !.created_at   = fromisoformat(d.created_at),
                    !.started_at   = IF d.started_at # None
                                     THEN Some(fromisoformat(d.started_at))
                                     ELSE None,
                    !.completed_at = IF d.completed_at # None
                                     THEN Some(fromisoformat(d.completed_at))
                                     ELSE None ]
    IN  IF DOMAIN data \subseteq Fields THEN data ELSE TypeError

\* QueuedRequest.is_timeout, at clock reading t
is_timeout(r, t) ==
    IF r.started_at = None THEN FALSE
    ELSE t - r.started_at[1] > r.timeout_seconds

----------------------------------------------------------------------------
(* Helpers of CrashProofQueue *)

\* priority_order of _insert_by_priority
priority_order(p) == CASE p = HIGH -> 0 [] p = NORMAL -> 1 [] p = LOW -> 2

InsertAt(w, i, x) == SubSeq(w, 1, i - 1) \o << x >> \o SubSeq(w, i, Len(w))

\* _insert_by_priority comparing with <= : a request also goes before the
\* waiting requests of its own priority.
insert_before_equal(w, id, rq) ==
    LET lower == { i \in 1..Len(w) :
                     priority_order(rq[id].priority)
                       <= priority_order(rq[w[i]].priority) }
    IN  IF lower = {} THEN Append(w, id)
        ELSE InsertAt(w, CHOOSE i \in lower : \A j \in lower : i <= j, id)

\* _insert_by_priority that ignores the priority
insert_at_end(w, id, rq) == Append(w, id)

\* _insert_by_priority: before the first waiting request of strictly lower
\* priority, else at the end.  rq maps ids to request objects.
insert_by_priority(w, id, rq) ==
    LET lower == { i \in 1..Len(w) :
                     priority_order(rq[id].priority)
                       < priority_order(rq[w[i]].priority) }
    IN  IF lower = {} THEN Append(w, id)
        ELSE InsertAt(w, CHOOSE i \in lower : \A j \in lower : i <= j, id)

\* a test for a request the queue knows, in processing or not
is_known(id) == id \in DOMAIN req

\* "request_id in self.processing"
InProcessing(id) == \E i \in 1..Len(processing) : processing[i] = id

\* a read of self.processing[request_id] in place of the pop
pop_keeps(p, id) == p

\* self.processing.pop(request_id), for a key that is present
pop(p, id) == SelectSeq(p, LAMBDA x : x # id)

\* a read of self.waiting[0] in place of the popleft
left_kept(w) == w

\* self.waiting.popleft(): what is left of a non-empty waiting
popleft(w) == Tail(w)

\* queue_full with the comparison off by one
queue_full_above == Len(waiting) > max_waiting

\* enqueue's "queue is full" test
queue_full == Len(waiting) >= max_waiting

\* at_capacity with the comparison off by one
at_capacity_above == Len(processing) > max_concurrent

\* dequeue's "cannot process more" test
at_capacity == Len(processing) >= max_concurrent

\* fail's test with <= : one more retry than the budget
can_retry_once_more(r) == r.retry_count <= r.max_retries

\* fail's "retry if under max retries" test, after the increment
can_retry(r) == r.retry_count < r.max_retries

\* The _id the database gives a document it inserts.
ObjectId(request_id) == << "oid", request_id >>

\* collection.update_one({"request_id": id}, {"$set": doc}, upsert=True) on
\* the collection st: the fields of doc are set in the document of that
\* request_id, which keeps its _id; when there is none, one is inserted and
\* gets its _id.
update_one(st, request_id, doc) ==
    IF request_id \in DOMAIN st
    THEN (request_id :> (doc @@ st[request_id])) @@ st
    ELSE (request_id :> (doc @@ ("_id" :> ObjectId(request_id)))) @@ st

\* _persist_request issued by operation `by`: the update_one in flight
persist_request(r, by) ==
    inflight \cup { [ request_id |-> r.request_id, doc |-> to_dict(r), by |-> by ] }

----------------------------------------------------------------------------
(* Types of manager.py and the objects lifespan builds from them *)

STOPPED == "stopped"
STARTING == "starting"
RUNNING == "running"
STOPPING == "stopping"
ERROR == "error"

ModelStatus == {STOPPED, STARTING, RUNNING, STOPPING, ERROR}

TINY == "tiny"
SMALL == "small"
BASE == "base"
LARGE == "large"
GUNDAM == "gundam"

OCRResolution == {TINY, SMALL, BASE, LARGE, GUNDAM}

\* The backends of the configuration: the two names manager.py knows.
Backends == {"gemma", "deepseek"}

\* CrashProofQueue.model_name of the queue there is
queue_model_name == "gemma"

\* The resolutions callers ask for
Resolutions == {BASE, GUNDAM}

\* ModelConfig.resolution_mode, at its default
resolution_mode == None

\* The tasks that call the manager: the handlers of two admin requests and
\* the auto-switcher's loop.
Admins == {"admin1", "admin2"}
Tasks == Admins \cup {"auto_switcher"}

\* ModelInfo.__init__
ModelInfo(name, mode) ==
    [ status             |-> STOPPED,
      process            |-> None,
      started_at         |-> None,
      stopped_at         |-> None,
      current_resolution |-> IF name = "deepseek" THEN mode ELSE None ]

\* A task that is in no call of the manager
Idle ==
    [ op |-> "none", model |-> "none", resolution |-> None, graceful |-> TRUE,
      pc |-> "idle", start_time |-> 0, stopped |-> "none" ]

\* The timeout of the health wait in start_model and the default timeout
\* of stop_model, in seconds
health_timeout == 120
stop_timeout == 60

\* timedelta(minutes = m) taken for m seconds
minutes_as_seconds(m) == m

\* timedelta(minutes = m), in seconds
minutes(m) == m * 60

\* ModelManager.__init__ and AutoSwitcher.__init__, as lifespan calls them
ManagerConstructed ==
    /\ models = [ name \in Backends |-> ModelInfo(name, resolution_mode) ]
    /\ current_model = None
    /\ switching_lock = None
    /\ tasks = [ t \in Tasks |-> Idle ]
    /\ children = << >>
    /\ next_pid = 1
    /\ last_switch = None
    /\ switcher = [ pc |-> "off", sleep_until |-> 0, current_model |-> None ]

----------------------------------------------------------------------------
(* The coroutines of CrashProofQueue, each up to its one await *)

Returns(op, kind, id) == [ op |-> op, kind |-> kind, id |-> id ]
NoReturn == Returns("none", "None", 0)

config == << max_concurrent, max_waiting, is_running >>
lifecycle == << models, current_model, switching_lock, tasks, children,
                next_pid, last_switch, switcher >>
counters == << total_processed, total_failed, total_timeout >>
loop == << loop_pc, sleep_until, timeout_ids >>
history == << dispatches, dispatched, returned, crashes >>

\* CrashProofQueue.__init__, for the given configuration
Constructed(mc, mw) ==
    /\ max_concurrent = mc
    /\ max_waiting = mw
    /\ processing = << >>
    /\ waiting = << >>
    /\ req = << >>
    /\ total_processed = 0
    /\ total_failed = 0
    /\ total_timeout = 0
    /\ is_running = FALSE
    /\ store = << >>
    /\ inflight = {}
    /\ loop_pc = "off"
    /\ sleep_until = 0
    /\ timeout_ids = << >>
    /\ now = 0
    /\ next_id = 1
    /\ ret = NoReturn
    /\ dispatches = << >>
    /\ dispatched = << >>
    /\ returned = << >>
    /\ crashes = 0
    /\ ManagerConstructed

\* The orders in which a cursor can return the documents with these ids:
\* find() is given no sort.
Orders(ids) ==
    { o \in [ 1..Cardinality(ids) -> ids ] :
        \A i, j \in 1..Cardinality(ids) : o[i] = o[j] => i = j }

\* The body of recover_from_crash's "async for doc in cursor", for one
\* document.  acc holds waiting, the request objects and the writes made so
\* far.  An exception of from_dict is logged and the document is skipped.
recover_doc(acc, doc) ==
    LET request == from_dict(doc)
    IN  IF request = TypeError THEN acc
        ELSE LET id == request.request_id
                 reset == IF request.status = PROCESSING
                          THEN [ request EXCEPT !.status = QUEUED,
                                                !.started_at = None,
                                                !.retry_count = @ + 1 ]
                          ELSE request
                 failed == [ reset EXCEPT !.status = FAILED ]
             IN  IF can_retry(reset)
                 THEN [ acc EXCEPT
                          !.rq = (id :> reset) @@ @,
                          !.waiting = insert_by_priority(
                                          @, id, (id :> reset) @@ acc.rq) ]
                 ELSE [ acc EXCEPT
                          !.rq = (id :> failed) @@ @,
                          !.writes = @ \cup { [ request_id |-> id,
                                                doc |-> to_dict(failed),
                                                by |-> "recover" ] } ]

RECURSIVE recover_docs(_, _)
recover_docs(acc, docs) ==
    IF docs = << >> THEN acc
    ELSE recover_docs(recover_doc(acc, Head(docs)), Tail(docs))

\* The documents recover_from_crash's find() selects (every document of the
\* collection is of this queue's model_name)
pending(st) == { id \in DOMAIN st : st[id].status \in {QUEUED, PROCESSING} }

\* CrashProofQueue.recover_from_crash
recover_from_crash ==
    \E order \in Orders(pending(store)) :
        LET docs == [ i \in DOMAIN order |-> store[order[i]] ]
            out == recover_docs([ waiting |-> waiting, rq |-> req,
                                  writes |-> {} ], docs)
        IN  /\ waiting' = out.waiting
            /\ req' = out.rq
            /\ inflight' = inflight \cup out.writes

\* CrashProofQueue.start: recover_from_crash, then the timeout loop is
\* created and goes to sleep.
start ==
    /\ ~is_running
    /\ is_running' = TRUE
    /\ recover_from_crash
    /\ loop_pc' = "sleep"
    /\ sleep_until' = now + RecoveryInterval
    /\ ret' = Returns("start", "None", 0)
    /\ UNCHANGED << lifecycle, max_concurrent, max_waiting, processing, counters, store,
                    timeout_ids, now, next_id, history >>

\* A second call of recover_from_crash, right after the one start made
recover_again ==
    /\ is_running
    /\ ret.op = "start"
    /\ inflight = {}
    /\ recover_from_crash
    /\ ret' = Returns("recover_from_crash", "None", 0)
    /\ UNCHANGED << lifecycle, config, processing, counters, store, loop, now, next_id,
                    history >>

\* CrashProofQueue.enqueue
enqueue(priority, timeout) ==
    IF queue_full
    THEN \* raise QueueFullError
         /\ ret' = Returns("enqueue", "QueueFull", 0)
         /\ UNCHANGED << lifecycle, config, processing, waiting, req, counters, store,
                         inflight, loop, now, next_id, history >>
    ELSE LET id == next_id
             request == QueuedRequest(id, priority, timeout)
             rq == (id :> request) @@ req
         IN  /\ req' = rq
             /\ waiting' = insert_by_priority(waiting, id, rq)
             /\ inflight' = persist_request(request, "enqueue")
             /\ next_id' = next_id + 1
             /\ ret' = Returns("enqueue", "id", id)
             /\ dispatches' = (id :> 0) @@ dispatches
             /\ UNCHANGED << lifecycle, config, processing, counters, store, loop, now,
                             dispatched, returned, crashes >>

\* CrashProofQueue.dequeue
dequeue ==
    IF at_capacity \/ waiting = << >>
    THEN \* return None
         /\ ret' = Returns("dequeue", "None", 0)
         /\ UNCHANGED << lifecycle, config, processing, waiting, req, counters, store,
                         inflight, loop, now, next_id, history >>
    ELSE LET id == Head(waiting)
             request == [ req[id] EXCEPT !.status = PROCESSING,
                                         !.started_at = Some(now) ]
         IN  /\ waiting' = popleft(waiting)
             /\ req' = [ req EXCEPT ![id] = request ]
             /\ processing' = Append(processing, id)
             /\ inflight' = persist_request(request, "dequeue")
             /\ ret' = Returns("dequeue", "id", id)
             /\ dispatches' = [ dispatches EXCEPT ![id] = @ + 1 ]
             /\ dispatched' = IF dispatches[id] = 0
                              THEN Append(dispatched, id) ELSE dispatched
             /\ UNCHANGED << lifecycle, config, counters, store, loop, now, next_id,
                             returned, crashes >>

\* CrashProofQueue.complete
complete(request_id) ==
    /\ ret' = NoReturn
    /\ IF ~InProcessing(request_id)
       THEN \* warning, return
            UNCHANGED << lifecycle, config, processing, waiting, req, counters, store,
                         inflight, loop, now, next_id, history >>
       ELSE LET request == [ req[request_id] EXCEPT
                               !.status = COMPLETED,
                               !.completed_at = Some(now) ]
            IN  /\ processing' = pop(processing, request_id)
                /\ req' = [ req EXCEPT ![request_id] = request ]
                /\ total_processed' = total_processed + 1
                /\ inflight' = persist_request(request, "complete")
                /\ UNCHANGED << lifecycle, config, waiting, total_failed, total_timeout,
                                store, loop, now, next_id, history >>

\* CrashProofQueue.fail
fail(request_id) ==
    /\ ret' = NoReturn
    /\ IF ~InProcessing(request_id)
       THEN \* warning, return
            UNCHANGED << lifecycle, config, processing, waiting, req, counters, store,
                         inflight, loop, now, next_id, history >>
       ELSE LET counted == [ req[request_id] EXCEPT !.retry_count = @ + 1 ]
                requeued == [ counted EXCEPT !.status = QUEUED,
                                             !.started_at = None ]
                failed == [ counted EXCEPT !.status = FAILED,
                                           !.completed_at = Some(now) ]
            IN  /\ processing' = pop(processing, request_id)
                /\ IF can_retry(counted)
                   THEN /\ req' = [ req EXCEPT ![request_id] = requeued ]
                        /\ waiting' = insert_by_priority(waiting, request_id, req')
                        /\ total_failed' = total_failed
                        /\ inflight' = persist_request(requeued, "fail")
                   ELSE /\ req' = [ req EXCEPT ![request_id] = failed ]
                        /\ waiting' = waiting
                        /\ total_failed' = total_failed + 1
                        /\ inflight' = persist_request(failed, "fail")
                /\ UNCHANGED << lifecycle, config, total_processed, total_timeout, store,
                                loop, now, next_id, history >>

\* The coroutine suspended in _persist_request(w) goes on; when it is an
\* enqueue, the call returns its request_id now.
resumed(w) ==
    /\ inflight' = inflight \ {w}
    /\ returned' = IF w.by = "enqueue"
                   THEN Append(returned, w.request_id) ELSE returned
    /\ ret' = NoReturn

\* _persist_request: the update_one of write w succeeds.
persist_done(w) ==
    /\ w \in inflight
    /\ store' = update_one(store, w.request_id, w.doc)
    /\ resumed(w)
    /\ UNCHANGED << lifecycle, config, processing, waiting, req, counters, loop, now,
                    next_id, dispatches, dispatched, crashes >>

\* _persist_request: the update_one of write w raises; the error is logged
\* and the operation goes on.
persist_error(w) ==
    /\ w \in inflight
    /\ store' = store
    /\ resumed(w)
    /\ UNCHANGED << lifecycle, config, processing, waiting, req, counters, loop, now,
                    next_id, dispatches, dispatched, crashes >>

----------------------------------------------------------------------------
(* _recovery_loop *)

\* The loop goes back to "while self.is_running" and sleeps again.
loop_again ==
    /\ loop_pc' = IF is_running THEN "sleep" ELSE "off"
    /\ sleep_until' = now + RecoveryInterval
    /\ timeout_ids' = << >>
    /\ UNCHANGED << processing, req, total_timeout, inflight >>

\* handle_timeouts marking the request it scanned earlier without looking
\* for it in processing again.
handle_timeouts_unchecked(ids) ==
    IF ids = << >> THEN loop_again
    ELSE LET id == Head(ids)
             request == [ req[id] EXCEPT !.status = TIMEOUT,
                                         !.completed_at = Some(now) ]
         IN  /\ processing' = pop(processing, id)
             /\ req' = [ req EXCEPT ![id] = request ]
             /\ total_timeout' = total_timeout + 1
             /\ inflight' = persist_request(request, "timeout")
             /\ timeout_ids' = Tail(ids)
             /\ loop_pc' = "persist"
             /\ sleep_until' = sleep_until

\* "for request_id in timeout_ids", entered or resumed with ids left: one
\* request is handled up to the await of its _persist_request.  A pop of a
\* request_id no longer in processing raises KeyError, which the loop's
\* "except Exception" logs, and the rest of the list is dropped.
handle_timeouts(ids) ==
    IF ids = << >> THEN loop_again
    ELSE IF ~InProcessing(Head(ids)) THEN loop_again
    ELSE LET id == Head(ids)
             request == [ req[id] EXCEPT !.status = TIMEOUT,
                                         !.completed_at = Some(now) ]
         IN  /\ processing' = pop(processing, id)
             /\ req' = [ req EXCEPT ![id] = request ]
             /\ total_timeout' = total_timeout + 1
             /\ inflight' = persist_request(request, "timeout")
             /\ timeout_ids' = Tail(ids)
             /\ loop_pc' = "persist"
             /\ sleep_until' = sleep_until

\* The sleep ends: the loop collects the timed-out ids of processing and
\* starts handling them.
recovery_wake ==
    /\ loop_pc = "sleep"
    /\ now >= sleep_until
    /\ handle_timeouts(SelectSeq(processing, LAMBDA id : is_timeout(req[id], now)))
    /\ ret' = NoReturn
    /\ UNCHANGED << lifecycle, config, waiting, total_processed, total_failed, store,
                    now, next_id, history >>

\* The loop's _persist_request has finished: on to the next id.
recovery_resume ==
    /\ loop_pc = "persist"
    /\ \A w \in inflight : w.by # "timeout"
    /\ handle_timeouts(timeout_ids)
    /\ ret' = NoReturn
    /\ UNCHANGED << lifecycle, config, waiting, total_processed, total_failed, store,
                    now, next_id, history >>

----------------------------------------------------------------------------
(* The environment: the clock and the callers *)

\* Time passes.
Tick ==
    /\ now' = now + TickStep
    /\ ret' = NoReturn
    /\ UNCHANGED << lifecycle, config, processing, waiting, req, counters, store,
                    inflight, loop, next_id, history >>

\* The event loop is never late: no time passes while the timeout loop is
\* due or at work.
TimelyTick ==
    /\ loop_pc = "sleep"
    /\ now + TickStep <= sleep_until
    /\ Tick

\* The process dies and a new one is started (lifespan builds the queue
\* again from the same configuration): everything in memory is gone, the
\* collection stays, and the writes that had not reached it are lost.
crash ==
    /\ crashes < MaxCrashes
    /\ is_running
    /\ crashes' = crashes + 1
    /\ processing' = << >>
    /\ waiting' = << >>
    /\ req' = << >>
    /\ total_processed' = 0
    /\ total_failed' = 0
    /\ total_timeout' = 0
    /\ is_running' = FALSE
    /\ inflight' = {}
    /\ loop_pc' = "off"
    /\ sleep_until' = 0
    /\ timeout_ids' = << >>
    /\ ret' = NoReturn
    /\ UNCHANGED << lifecycle, max_concurrent, max_waiting, store, now, next_id,
                    dispatches, dispatched, returned >>

\* Coroutines of callers suspended in _persist_request
CallersSuspended == Cardinality({ w \in inflight : w.by # "timeout" })

\* A call of enqueue, of at most n in one run.  lifespan publishes the
\* queue to the request handlers after start().
Admit(priorities, n) ==
    /\ is_running
    /\ next_id <= n
    /\ \E p \in priorities, t \in Timeouts : enqueue(p, t)

\* A worker's call of dequeue, and of complete or fail, where 0 is an id
\* the queue has never handed out.
Dispatch == is_running /\ dequeue
Succeed == is_running /\ \E id \in 0..(next_id - 1) : complete(id)
Break == is_running /\ \E id \in 0..(next_id - 1) : fail(id)

Work == Dispatch \/ Succeed \/ Break

----------------------------------------------------------------------------
(* ModelManager.  Its methods work on the manager's state
   [models, current_model, children, next_pid], written ms. *)

manager_state ==
    [ models |-> models, current_model |-> current_model,
      children |-> children, next_pid |-> next_pid ]

\* The pids of the children of backend `name` that are alive
ChildrenOf(ms, name) == { pid \in DOMAIN ms.children : ms.children[pid] = name }

\* What a call returns, with the state it leaves; "wait" stands for a call
\* that has suspended.
Outcome(ms, result) == [ ms |-> ms, result |-> result ]

\* _build_vllm_command that records no resolution
build_vllm_command_plain(ms, model_name, resolution) == ms

\* ModelManager._build_vllm_command: the command line does not depend on
\* the resolution; the resolution of the OCR backend is recorded.
build_vllm_command(ms, model_name, resolution) ==
    IF model_name = "deepseek" /\ resolution # None
    THEN [ ms EXCEPT !.models[model_name].current_resolution = resolution ]
    ELSE ms

\* ModelManager._get_active_requests
get_active_requests(model_name) == 0

\* ModelManager.start_model up to its await of _wait_for_health.  popen
\* says whether subprocess.Popen succeeds or raises.
start_model_begin(ms, model_name, resolution, popen) ==
    IF model_name \notin DOMAIN ms.models THEN Outcome(ms, "False")
    ELSE IF ms.models[model_name].status = RUNNING THEN Outcome(ms, "True")
    ELSE LET starting == [ ms EXCEPT !.models[model_name].status = STARTING ]
             built == build_vllm_command(starting, model_name, resolution)
             pid == ms.next_pid
         IN  IF popen
             THEN Outcome([ built EXCEPT
                              !.models[model_name].process = Some(pid),
                              !.models[model_name].started_at = Some(now),
                              !.children = (pid :> model_name) @@ @,
                              !.next_pid = pid + 1 ],
                          "wait")
             ELSE Outcome([ built EXCEPT !.models[model_name].status = ERROR ],
                          "False")

\* start_model that takes a health wait that timed out for a success
start_model_end_hopeful(ms, model_name, healthy) ==
    Outcome([ ms EXCEPT !.models[model_name].status = RUNNING,
                        !.current_model = Some(model_name) ],
            "True")

\* ModelManager.start_model from the return of _wait_for_health on
\* (healthy: a probe answered 200 before the timeout).
start_model_end(ms, model_name, healthy) ==
    IF healthy
    THEN Outcome([ ms EXCEPT !.models[model_name].status = RUNNING,
                             !.current_model = Some(model_name) ],
                 "True")
    ELSE Outcome([ ms EXCEPT !.models[model_name].status = ERROR ], "False")

\* stop_model that leaves the backend as it is
stop_model_skipped(ms, model_name, graceful, timeout, killed) ==
    Outcome(ms, "True")

\* stop_model that clears current_model whatever it names
stop_model_clears(ms, model_name, graceful, timeout, killed) ==
    IF ms.models[model_name].status = STOPPED THEN Outcome(ms, "True")
    ELSE Outcome([ ms EXCEPT
                     !.models[model_name].status = STOPPED,
                     !.models[model_name].process = None,
                     !.models[model_name].stopped_at = Some(now),
                     !.children = [ pid \in DOMAIN @ \ ChildrenOf(ms, model_name)
                                      |-> @[pid] ],
                     !.current_model = None ],
                 "True")

\* ModelManager.stop_model.  The graceful wait sleeps ("wait") while
\* _get_active_requests counts a request and the timeout has not elapsed;
\* as the count is 0, the loop is left on its first pass and the call
\* never suspends.  killed says whether terminate, wait and pkill go
\* through or the first of them raises.  pkill -f ends every process of
\* this backend.
stop_model(ms, model_name, graceful, timeout, killed) ==
    IF model_name \notin DOMAIN ms.models THEN Outcome(ms, "False")
    ELSE IF ms.models[model_name].status = STOPPED THEN Outcome(ms, "True")
    ELSE IF graceful /\ timeout > 0 /\ get_active_requests(model_name) # 0
    THEN Outcome([ ms EXCEPT !.models[model_name].status = STOPPING ], "wait")
    ELSE IF killed
    THEN Outcome([ ms EXCEPT
                     !.models[model_name].status = STOPPED,
                     !.models[model_name].process = None,
                     !.models[model_name].stopped_at = Some(now),
                     !.children = [ pid \in DOMAIN @ \ ChildrenOf(ms, model_name)
                                      |-> @[pid] ],
                     !.current_model = IF @ = Some(model_name) THEN None
                                       ELSE @ ],
                 "True")
    ELSE Outcome([ ms EXCEPT !.models[model_name].status = ERROR ], "False")

\* ModelManager._wait_for_health, asked at the time `now` about a wait
\* that began at start_time: True on a probe that answers 200 while the
\* timeout has not elapsed, False once it has, and otherwise still asleep
\* between two probes ("wait").  A probe is answered by a live child of
\* the backend.
wait_for_health(ms, model_name, start_time, timeout, answers) ==
    IF now - start_time >= timeout THEN "False"
    ELSE IF answers /\ ChildrenOf(ms, model_name) # {} THEN "True"
    ELSE "wait"

----------------------------------------------------------------------------
(* The calls of the manager's methods by tasks of the event loop: an admin
   request handler of main.py, or the auto-switcher's loop.  tasks[t] is
   the call task t is in, or was in last. *)

queue == << config, processing, waiting, req, counters, store, inflight, loop,
            next_id, history >>

Call(op, model_name, resolution, graceful) ==
    [ op |-> op, model |-> model_name, resolution |-> resolution,
      graceful |-> graceful, pc |-> "idle", start_time |-> 0,
      stopped |-> "none" ]

Locked(op) == op \in {"switch_model", "switch_ocr_resolution"}

Install(ms) ==
    /\ models' = ms.models
    /\ current_model' = ms.current_model
    /\ children' = ms.children
    /\ next_pid' = ms.next_pid

\* AutoSwitcher._switching_loop at its sleep
asleep == [ pc |-> "sleep", sleep_until |-> now + minutes(switch_cooldown_minutes),
            current_model |-> None ]

\* What the caller of call c in task t gets back
Returned(t, c, result) ==
    [ op |-> c.op, kind |-> result, id |-> 0, task |-> t, call |-> c ]

\* Task t, in call c, suspends at pc.
Suspend(t, c, ms, pc) ==
    /\ Install(ms)
    /\ tasks' = [ tasks EXCEPT ![t] = [ c EXCEPT !.pc = pc, !.start_time = now ] ]
    /\ switching_lock' = IF Locked(c.op) /\ pc # "lock" THEN Some(t)
                         ELSE switching_lock
    /\ switcher' = IF t = "auto_switcher" THEN [ switcher EXCEPT !.pc = "switch" ]
                   ELSE switcher
    /\ ret' = NoReturn
    /\ UNCHANGED last_switch

\* last_switch recorded whatever switch_model returned
switched_always(success) == Some(now)

\* AutoSwitcher.last_switch after switch_model has returned success
switched(success) == IF success = "True" THEN Some(now) ELSE last_switch

\* start_model has returned result to call c of task t, which runs to its
\* own return: switch_ocr_resolution records the resolution of a start
\* that succeeded, both switches release the lock, and _check_and_switch
\* records the time of a switch that succeeded and returns to the loop,
\* which goes to sleep.
Return(t, c, ms, result) ==
    /\ Install(IF c.op = "switch_ocr_resolution" /\ result = "True"
               THEN [ ms EXCEPT !.models["deepseek"].current_resolution =
                                    c.resolution ]
               ELSE ms)
    /\ tasks' = [ tasks EXCEPT ![t] = Idle ]
    /\ ret' = Returned(t, c, result)
    /\ switching_lock' = IF switching_lock = Some(t) THEN None
                         ELSE switching_lock
    /\ IF t = "auto_switcher"
       THEN /\ last_switch' = switched(result)
            /\ switcher' = asleep
       ELSE UNCHANGED << last_switch, switcher >>

\* start_model has got to its return or to its await.
Started(t, c, out) ==
    IF out.result = "wait" THEN Suspend(t, c, out.ms, "health")
    ELSE Return(t, c, out.ms, out.result)

\* The body of `async with self.switching_lock` in switch_model and in
\* switch_ocr_resolution, up to the await of start_model: the lock is
\* free, and nothing suspends before.  The call's `stopped` is what its
\* stop_model returned, "none" if it made none.
locked_section(t, c) ==
    \E killed \in BOOLEAN, popen \in BOOLEAN :
        LET ms == manager_state
            stops == IF c.op = "switch_model"
                     THEN ms.current_model # None
                          /\ ms.current_model # Some(c.model)
                     ELSE ms.models[c.model].status = RUNNING
            stopped == IF c.op = "switch_model"
                       THEN stop_model(ms, ms.current_model[1], TRUE,
                                       stop_timeout, killed)
                       ELSE stop_model(ms, c.model, c.graceful, stop_timeout,
                                       killed)
        IN  IF stops
            THEN Started(t, [ c EXCEPT !.stopped = stopped.result ],
                         start_model_begin(stopped.ms, c.model, c.resolution,
                                           popen))
            ELSE Started(t, c, start_model_begin(ms, c.model, c.resolution,
                                                 popen))

Free(t) == tasks[t].pc = "idle"

Untouched == UNCHANGED << queue, now >>

\* POST /admin/models/{model_name}/start
call_start_model(t, model_name, resolution) ==
    /\ Free(t)
    /\ next_pid <= MaxSpawns
    /\ \E popen \in BOOLEAN :
           Started(t, Call("start_model", model_name, resolution, TRUE),
                   start_model_begin(manager_state, model_name, resolution,
                                     popen))
    /\ Untouched

\* POST /admin/models/{model_name}/stop
call_stop_model(t, model_name, graceful) ==
    /\ Free(t)
    /\ \E killed \in BOOLEAN :
           LET out == stop_model(manager_state, model_name, graceful,
                                 stop_timeout, killed)
               c == Call("stop_model", model_name, None, graceful)
           IN  IF out.result = "wait" THEN Suspend(t, c, out.ms, "drain")
               ELSE Return(t, c, out.ms, out.result)
    /\ Untouched

\* A call of switch_model or of switch_ocr_resolution gets to the lock:
\* it goes on if the lock is free and waits for it if not.
Enter(t, c) ==
    IF switching_lock = None THEN locked_section(t, c)
    ELSE Suspend(t, c, manager_state, "lock")

\* A call of ModelManager.switch_model
call_switch_model(t, target_model) ==
    /\ Free(t)
    /\ next_pid <= MaxSpawns
    /\ Enter(t, Call("switch_model", target_model, None, TRUE))
    /\ Untouched

\* POST /admin/ocr/resolution
call_switch_ocr_resolution(t, resolution, graceful) ==
    /\ Free(t)
    /\ next_pid <= MaxSpawns
    /\ LET c == Call("switch_ocr_resolution", "deepseek", Some(resolution),
                     graceful)
       IN  IF "deepseek" \notin DOMAIN models
           THEN Return(t, c, manager_state, "False")
           ELSE IF models["deepseek"].current_resolution = Some(resolution)
           THEN Return(t, c, manager_state, "True")
           ELSE Enter(t, c)
    /\ Untouched

\* The lock is handed to a task that waits for it.
acquire(t) ==
    /\ tasks[t].pc = "lock"
    /\ switching_lock = None
    /\ locked_section(t, tasks[t])
    /\ Untouched

\* The health wait of task t's start_model ends.
health(t) ==
    /\ tasks[t].pc = "health"
    /\ \E answers \in BOOLEAN :
           LET c == tasks[t]
               ready == wait_for_health(manager_state, c.model, c.start_time,
                                        health_timeout, answers)
               out == start_model_end(manager_state, c.model, ready = "True")
           IN  /\ ready # "wait"
               /\ Return(t, c, out.ms, out.result)
    /\ Untouched

\* A live child of the backend answers 200 to the probe task t has sent
\* before its timeout; the task is still suspended in client.get.
probe_answered(t) ==
    /\ tasks[t].pc = "health"
    /\ now - tasks[t].start_time < health_timeout
    /\ ChildrenOf(manager_state, tasks[t].model) # {}
    /\ tasks' = [ tasks EXCEPT ![t].pc = "answered" ]
    /\ ret' = NoReturn
    /\ UNCHANGED << models, current_model, switching_lock, children, next_pid,
                    last_switch, switcher >>
    /\ Untouched

\* Task t resumes with the response it was sent: _wait_for_health returns
\* True and start_model goes on to its return.
health_resume(t) ==
    /\ tasks[t].pc = "answered"
    /\ LET c == tasks[t]
           out == start_model_end(manager_state, c.model, TRUE)
       IN  Return(t, c, out.ms, out.result)
    /\ Untouched

----------------------------------------------------------------------------
(* AutoSwitcher, with auto_switch.enabled *)

\* The request history of the window, as analyze_patterns counts it: the
\* number of requests of each model, and the order in which the models
\* come up first (the order of the keys of model_counts).
Histories == [ Backends -> 0..MaxCount ]
KeyOrders ==
    { o \in [ 1..Cardinality(Backends) -> Backends ] :
        \A i, j \in DOMAIN o : o[i] = o[j] => i = j }

\* sum(model_counts.values())
RECURSIVE sum_values(_, _)
sum_values(model_counts, keys) ==
    IF keys = {} THEN 0
    ELSE LET k == CHOOSE k \in keys : TRUE
         IN  model_counts[k] + sum_values(model_counts, keys \ {k})

\* max(model_counts.items(), key = count)[0]: the first key of the
\* highest count
max_count(model_counts, order) ==
    LET first == CHOOSE i \in DOMAIN order :
                     /\ \A j \in DOMAIN order :
                           model_counts[order[j]] <= model_counts[order[i]]
                     /\ \A j \in 1..(i - 1) :
                           model_counts[order[j]] < model_counts[order[i]]
    IN  order[first]

\* PatternAnalyzer.analyze_patterns, from the counts on.  The confidence
\* count / total is kept as the fraction it is.
analyze_patterns(model_counts, order) ==
    LET total_requests == sum_values(model_counts, DOMAIN model_counts)
        recommended_model == max_count(model_counts, order)
    IN  IF total_requests = 0
        THEN [ recommended_model |-> None,
               confidence |-> [ count |-> 0, total |-> 1 ] ]
        ELSE IF model_counts[recommended_model] < min_requests_for_switch
        THEN [ recommended_model |-> None,
               confidence |-> [ count |-> 0, total |-> 1 ] ]
        ELSE [ recommended_model |-> Some(recommended_model),
               confidence |-> [ count |-> model_counts[recommended_model],
                                total |-> total_requests ] ]

\* should_switch_model without the test of the confidence
should_switch_model_unsure(current, analysis) ==
    IF analysis.recommended_model = current THEN None
    ELSE analysis.recommended_model

\* PatternAnalyzer.should_switch_model, from the analysis on;
\* confidence < 0.6 is count / total < 6 / 10.
should_switch_model(current, analysis) ==
    LET recommended == analysis.recommended_model
        confidence == analysis.confidence
    IN  IF recommended = None THEN None
        ELSE IF current = recommended THEN None
        ELSE IF 10 * confidence.count < 6 * confidence.total THEN None
        ELSE recommended

\* CrashProofQueue.get_metrics, of the one queue there is
get_metrics ==
    [ processing |-> Len(processing), waiting |-> Len(waiting),
      max_concurrent |-> max_concurrent, max_waiting |-> max_waiting,
      total_processed |-> total_processed, total_failed |-> total_failed,
      total_timeout |-> total_timeout ]

\* _are_queues_idle that does not look
queues_unchecked == TRUE

\* AutoSwitcher._are_queues_idle
are_queues_idle == ~(get_metrics.processing > 0)

\* AutoSwitcher.start, which lifespan calls after the queues' start()
switcher_start ==
    /\ is_running
    /\ switcher.pc = "off"
    /\ switcher' = asleep
    /\ ret' = NoReturn
    /\ UNCHANGED << models, current_model, switching_lock, tasks, children,
                    next_pid, last_switch >>
    /\ Untouched

\* The loop wakes and calls _check_and_switch, which runs to the await of
\* the pattern analyzer or returns for the cooldown.
check_and_switch ==
    /\ switcher.pc = "sleep"
    /\ now >= switcher.sleep_until
    /\ IF last_switch # None
          /\ now - last_switch[1] < minutes(switch_cooldown_minutes)
       THEN switcher' = asleep
       ELSE switcher' = [ switcher EXCEPT !.pc = "analyze",
                                          !.current_model = current_model ]
    /\ ret' = NoReturn
    /\ UNCHANGED << models, current_model, switching_lock, tasks, children,
                    next_pid, last_switch >>
    /\ Untouched

\* The analyzer answers for the history it has read, and
\* _check_and_switch runs on: to its return, or into switch_model, up to
\* where that suspends or returns.
analyzed_history(model_counts, order) ==
    /\ switcher.pc = "analyze"
    /\ LET recommended ==
               should_switch_model(switcher.current_model,
                                   analyze_patterns(model_counts, order))
       IN  IF recommended = None \/ ~are_queues_idle
           THEN /\ switcher' = asleep
                /\ ret' = NoReturn
                /\ UNCHANGED << models, current_model, switching_lock,
                                tasks, children, next_pid, last_switch >>
                /\ Untouched
           ELSE call_switch_model("auto_switcher", recommended[1])

analyzed ==
    \E model_counts \in Histories, order \in KeyOrders :
        analyzed_history(model_counts, order)

----------------------------------------------------------------------------
(* Specifications *)

\* One caller, which awaits each call before it makes the next; no request
\* is ever overdue.
Init == \E mc \in 1..MaxConcurrent, mw \in 1..MaxWaiting : Constructed(mc, mw)

Next ==
    \/ start
    \/ CallersSuspended = 0 /\ (Admit(Priority, MaxReq) \/ Work)
    \/ \E w \in inflight : persist_done(w)

Spec == Init /\ [][Next]_vars

\* Several callers at once, in the roomiest of these queues.
InitConcurrent == Constructed(MaxConcurrent, MaxWaiting)

NextConcurrent ==
    \/ start
    \/ CallersSuspended < MaxInflight /\ (Admit({NORMAL, HIGH}, MaxReq) \/ Work)
    \/ \E w \in inflight : persist_done(w)

SpecConcurrent == InitConcurrent /\ [][NextConcurrent]_vars

\* One caller beside the clock and the timeout loop, for at most n requests
\* of one priority and `ticks` clock steps.
NextTimed(n, ticks) ==
    \/ start
    \/ CallersSuspended = 0 /\ (Admit({NORMAL}, n) \/ Work)
    \/ \E w \in inflight : persist_done(w)
    \/ recovery_wake
    \/ recovery_resume
    \/ now < ticks * TickStep /\ TimelyTick

InitTimed == Constructed(MaxConcurrent, MaxWaiting)

SpecTimed == InitTimed /\ [][NextTimed(MaxReq, MaxTicks)]_vars

\* The same in a queue where SweepReq requests are in processing at once.
InitSweep == Constructed(SweepReq, SweepReq)

SpecSweep == InitSweep /\ [][NextTimed(SweepReq, SweepTicks)]_vars

\* The same as SpecTimed, with crashes of the process and a restart after
\* each.
NextCrash ==
    \/ NextTimed(MaxReq, MaxTicks)
    \/ crash
    \/ recover_again

SpecCrash == InitTimed /\ [][NextCrash]_vars

\* One caller whose writes to the collection can fail.
NextFaulty ==
    \/ Next
    \/ \E w \in inflight : persist_error(w)

SpecFaulty == Init /\ [][NextFaulty]_vars

\* The sequential scenario of one worker slot: a client enqueues up to
\* ScenarioReq requests, then a worker whose work never fails drains the
\* queue.
InitScenario == Constructed(1, DefaultMaxWaiting)

NextScenario ==
    \/ start
    \/ /\ CallersSuspended = 0
       /\ \/ dispatched = << >> /\ Admit({NORMAL, HIGH}, ScenarioReq)
          \/ Dispatch
          \/ Succeed
    \/ \E w \in inflight : persist_done(w)

SpecScenario == InitScenario /\ [][NextScenario]_vars

\* The admin endpoints of the manager, as one admin calls them, each
\* after the one before has answered, while the clock runs through the
\* health timeout.
AdminCall(t) ==
    \/ \E b \in Backends, r \in {None} \cup { Some(x) : x \in Resolutions } :
           call_start_model(t, b, r)
    \/ \E b \in Backends, g \in BOOLEAN : call_stop_model(t, b, g)
    \/ \E r \in Resolutions, g \in BOOLEAN : call_switch_ocr_resolution(t, r, g)

Waits == \E t \in Tasks : tasks[t].pc = "health"

NextLifecycle ==
    \/ AdminCall("admin1")
    \/ health("admin1")
    \/ Waits /\ now < health_timeout /\ Tick

SpecLifecycle == InitTimed /\ [][NextLifecycle]_vars

\* The queue of one backend with a worker, beside an admin who starts and
\* stops that backend.
NextDrain ==
    \/ start
    \/ CallersSuspended = 0 /\ (Admit({NORMAL}, 1) \/ Dispatch \/ Succeed)
    \/ \E w \in inflight : persist_done(w)
    \/ call_start_model("admin1", queue_model_name, None)
    \/ health("admin1")
    \/ \E g \in BOOLEAN : call_stop_model("admin1", queue_model_name, g)

SpecDrain == InitTimed /\ [][NextDrain]_vars

\* Two admin requests handled side by side.
NextRace == \E t \in Admins : AdminCall(t) \/ acquire(t) \/ health(t)

SpecRace == InitTimed /\ [][NextRace]_vars

\* The same, where other tasks run between the answer to a health probe and
\* the resumption of the start_model that sent it.
NextProbe ==
    \/ NextRace
    \/ \E t \in Admins : probe_answered(t) \/ health_resume(t)

SpecProbe == InitTimed /\ [][NextProbe]_vars

\* Backends changed by switch_model alone, called by two tasks side by
\* side, with stops and spawns that fail and health waits that time out.
NextSwap ==
    \/ \E t \in Admins :
          \/ \E b \in Backends : call_switch_model(t, b)
          \/ acquire(t)
          \/ health(t)
    \/ Waits /\ now < health_timeout /\ Tick

SpecSwap == InitTimed /\ [][NextSwap]_vars

\* The auto-switcher's loop beside the queue, its caller, its timeout loop
\* and the clock.
NextSwitcher ==
    \/ NextTimed(1, SwitcherTicks)
    \/ switcher_start
    \/ check_and_switch
    \/ analyzed
    \/ health("auto_switcher")

SpecSwitcher == InitTimed /\ [][NextSwitcher]_vars

\* The auto-switcher's loop beside the clock and a queue that stays empty.
NextPolicy ==
    \/ start
    \/ recovery_wake
    \/ now < SwitcherTicks * TickStep /\ TimelyTick
    \/ switcher_start
    \/ check_and_switch
    \/ analyzed
    \/ health("auto_switcher")

SpecPolicy == InitTimed /\ [][NextPolicy]_vars

\* The auto-switcher's loop beside an admin who changes the OCR resolution
\* (and holds switching_lock while the restart waits for health), the
\* queue with a worker, its timeout loop and the clock.
NextContend ==
    \/ start
    \/ CallersSuspended = 0 /\ (Admit({NORMAL}, 1) \/ Dispatch \/ Succeed)
    \/ \E w \in inflight : persist_done(w)
    \/ recovery_wake
    \/ recovery_resume
    \/ now < ContendTicks * TickStep /\ TimelyTick
    \/ switcher_start
    \/ check_and_switch
    \/ analyzed
    \/ acquire("auto_switcher")
    \/ health("auto_switcher")
    \/ \E r \in Resolutions, g \in BOOLEAN :
           call_switch_ocr_resolution("admin1", r, g)
    \/ health("admin1")

SpecContend == InitTimed /\ [][NextContend]_vars

----------------------------------------------------------------------------
(* Properties *)

InWaiting(id) == \E i \in 1..Len(waiting) : waiting[i] = id
Position(id) == CHOOSE i \in 1..Len(waiting) : waiting[i] = id
Terminal == {COMPLETED, FAILED, TIMEOUT}

\* C1: in every reachable state len(processing) <= max_concurrent and
\* len(waiting) <= max_waiting, also after a fail that re-queues a request
\* while waiting is full.
C1_QueuesBounded ==
    /\ Len(processing) <= max_concurrent
    /\ Len(waiting) <= max_waiting

\* C2: a call of enqueue made when len(waiting) < max_waiting returns an id
\* no request had before, with that request QUEUED in waiting; made when
\* len(waiting) >= max_waiting it raises QueueFull and leaves waiting,
\* processing, the requests, the counters, the store and the writes in
\* flight as they were.
C2_EnqueueAdmits ==
    [][ ret'.op = "enqueue" =>
          IF Len(waiting) < max_waiting
          THEN /\ ret'.kind = "id"
               /\ ret'.id \notin DOMAIN req
               /\ ret'.id \in DOMAIN req'
               /\ req'[ret'.id].status = QUEUED
               /\ \E i \in 1..Len(waiting') : waiting'[i] = ret'.id
               /\ Len(waiting') = Len(waiting) + 1
          ELSE /\ ret'.kind = "QueueFull"
               /\ UNCHANGED << waiting, processing, req, counters, store,
                               inflight >> ]_vars

\* C2's case: enqueue has just raised QueueFull on a full waiting room
\* from which nothing was ever dequeued.
C2_Witness ==
    /\ ret.op = "enqueue"
    /\ ret.kind = "QueueFull"
    /\ Len(waiting) = max_waiting
    /\ dispatched = << >>

\* C3: a call of dequeue made when waiting is empty or len(processing) >=
\* max_concurrent returns nothing and changes no state; any other call
\* removes the head of waiting, sets its status to PROCESSING and its
\* started_at, puts it in processing and returns it.
C3_DequeueDispatches ==
    [][ ret'.op = "dequeue" =>
          IF waiting = << >> \/ Len(processing) >= max_concurrent
          THEN /\ ret'.kind = "None"
               /\ UNCHANGED << waiting, processing, req, counters, store,
                               inflight >>
          ELSE /\ ret'.kind = "id"
               /\ ret'.id = Head(waiting)
               /\ waiting' = Tail(waiting)
               /\ req'[ret'.id].status = PROCESSING
               /\ req'[ret'.id].started_at # None
               /\ processing' = Append(processing, ret'.id)
               /\ \A id \in DOMAIN req \ {ret'.id} : req'[id] = req[id] ]_vars

\* C3's case: dequeue has just returned nothing although a request waits,
\* because processing is full.
C3_Witness ==
    /\ ret.op = "dequeue"
    /\ ret.kind = "None"
    /\ waiting # << >>
    /\ Len(processing) = max_concurrent

SamePriority(a, b) == req[a].priority = req[b].priority
FirstDispatchedBefore(a, b) ==
    \E i, j \in 1..Len(dispatched) :
        i < j /\ dispatched[i] = a /\ dispatched[j] = b
EverDispatched(id) == \E i \in 1..Len(dispatched) : dispatched[i] = id

\* a is served first in first out before b: ahead of b while both wait for
\* their first dispatch, and first dispatched before b.
Fifo(a, b) ==
    /\ (InWaiting(a) /\ InWaiting(b) /\ dispatches[a] = 0 /\ dispatches[b] = 0)
          => Position(a) < Position(b)
    /\ EverDispatched(b) => FirstDispatchedBefore(a, b)

Outranks(p, q) ==
    \/ p = HIGH /\ q \in {NORMAL, LOW}
    \/ p = NORMAL /\ q = LOW

\* C5: dequeue never dispatches a request while a request of higher
\* priority is waiting; so a HIGH request enqueued while a NORMAL one waits
\* is dequeued before it, and likewise for any higher and lower priority.
C5_PriorityPrecedence ==
    [][ (ret'.op = "dequeue" /\ ret'.kind = "id") =>
          \A i \in 1..Len(waiting') :
              ~Outranks(req[waiting'[i]].priority, req[ret'.id].priority) ]_vars

\* C5's case: a HIGH request admitted while a NORMAL request was waiting
\* has been dequeued and the NORMAL request, never dispatched, still waits.
C5_Witness ==
    \E n, h \in DOMAIN req :
        /\ n < h
        /\ req[n].priority = NORMAL
        /\ req[h].priority = HIGH
        /\ InWaiting(n)
        /\ dispatches[n] = 0
        /\ InProcessing(h)

\* The run of the scenario: five NORMAL requests 1..5 and then one HIGH
\* request 6 were enqueued, six dequeues each followed by complete were
\* made, and all six requests are COMPLETED.
ScenarioRun ==
    /\ next_id = 7
    /\ \A id \in 1..5 : req[id].priority = NORMAL
    /\ req[6].priority = HIGH
    /\ \A id \in 1..6 : req[id].status = COMPLETED

\* C6 as stated: the scenario dispatches in the order n1, h1, n2, .., n5.
C6_OrderAsStated == ScenarioRun => dispatched = << 1, 6, 2, 3, 4, 5 >>

\* C6 amended: the scenario dispatches in the order h1, n1, n2, .., n5.
C6_HighFirst == ScenarioRun => dispatched = << 6, 1, 2, 3, 4, 5 >>

C6_Witness == ScenarioRun

\* C7: a request whose every dispatch ended in fail and that is FAILED was
\* dispatched max_retries + 1 times.
C7_BudgetPlusOne ==
    \A id \in DOMAIN req :
        req[id].status = FAILED => dispatches[id] = req[id].max_retries + 1

NumberOf(rq, status) ==
    Cardinality({ id \in DOMAIN rq : rq[id].status = status })
Reaching(status) ==
    Cardinality({ id \in DOMAIN req' :
                    /\ req'[id].status = status
                    /\ id \in DOMAIN req => req[id].status # status })

\* C8: each counter is the number of requests in its terminal status, no
\* counter ever decreases, and a step raises a counter by the number of
\* requests that reach its status in that step (none on a fail that
\* re-queues).
C8_CountersAccount ==
    /\ [](/\ total_processed = NumberOf(req, COMPLETED)
          /\ total_failed = NumberOf(req, FAILED)
          /\ total_timeout = NumberOf(req, TIMEOUT))
    /\ [][ /\ total_processed' = total_processed + Reaching(COMPLETED)
           /\ total_failed' = total_failed + Reaching(FAILED)
           /\ total_timeout' = total_timeout + Reaching(TIMEOUT) ]_vars

\* C8's case: one request failed on every dispatch and is counted once in
\* total_failed, another was timed out by the loop.
C8_Witness ==
    /\ total_failed = 1
    /\ total_timeout = 1
    /\ \E id \in DOMAIN req :
           req[id].status = FAILED /\ dispatches[id] > 1

\* C9: a request in processing is never overdue by more than one check
\* interval: the loop has made it TIMEOUT by then.
C9_TimedOutWithinInterval ==
    \A i \in 1..Len(processing) :
        LET r == req[processing[i]]
        IN  now - r.started_at[1] <= r.timeout_seconds + RecoveryInterval

\* C10: a request that is COMPLETED, FAILED or TIMEOUT is not changed by
\* any later step (its status and retry count stay) and is in neither
\* waiting nor processing after it.
C10_TerminalAbsorbing ==
    [][ \A id \in DOMAIN req :
          req[id].status \in Terminal =>
              /\ req'[id] = req[id]
              /\ \A i \in 1..Len(waiting') : waiting'[i] # id
              /\ \A i \in 1..Len(processing') : processing'[i] # id ]_vars

\* C10's case: the timeout loop, suspended in a write, still has in its
\* list a request that was completed meanwhile, and another has timed out.
C10_Witness ==
    /\ loop_pc = "persist"
    /\ timeout_ids # << >>
    /\ req[Head(timeout_ids)].status = COMPLETED
    /\ \E id \in DOMAIN req : req[id].status = TIMEOUT

\* waiting is in priority order
Sorted(w, rq) ==
    \A i, j \in 1..Len(w) :
        i < j => priority_order(rq[w[i]].priority)
                   <= priority_order(rq[w[j]].priority)

\* C11: start recovers every stored row that is QUEUED or PROCESSING: a
\* PROCESSING row counts one more retry; a row with retries < max_retries
\* is then QUEUED, with started_at cleared and that retry count, in waiting,
\* which is in priority order; any other is not in waiting and is written
\* back as FAILED.
C11_StartRecovers ==
    [][ ret'.op = "start" =>
          /\ Sorted(waiting', req')
          /\ \A id \in pending(store) :
               LET row == store[id]
                   n == IF row.status = PROCESSING
                        THEN row.retry_count + 1 ELSE row.retry_count
               IN  IF n < row.max_retries
                   THEN /\ id \in DOMAIN req'
                        /\ req'[id].status = QUEUED
                        /\ req'[id].started_at = None
                        /\ req'[id].retry_count = n
                        /\ \E i \in 1..Len(waiting') : waiting'[i] = id
                   ELSE /\ \A i \in 1..Len(waiting') : waiting'[i] # id
                        /\ \E w \in inflight' :
                              /\ w.request_id = id
                              /\ w.doc.status = FAILED ]_vars

\* C12: a call of recover_from_crash made right after the one start made
\* leaves waiting (contents and order), the requests (status and retry
\* count), processing, the counters, the store and the writes in flight as
\* the first call left them, and no request is ever twice in waiting.
C12_RecoverTwice ==
    /\ [][ ret'.op = "recover_from_crash" =>
             UNCHANGED << waiting, processing, req, counters, store,
                          inflight >> ]_vars
    /\ [](\A i, j \in 1..Len(waiting) : waiting[i] = waiting[j] => i = j)

\* C12's case: after a crash that left a QUEUED and a PROCESSING row in
\* the store, recover_from_crash has run a second time.
C12_Witness ==
    /\ ret.op = "recover_from_crash"
    /\ crashes = 1
    /\ \E a, b \in pending(store) :
           store[a].status = QUEUED /\ store[b].status = PROCESSING

\* C13: for every request R the queue holds, in whatever status, writing R
\* to the collection with the queue's upsert and loading the stored
\* document back with from_dict gives a request equal to R in every field.
C13_RoundTrip ==
    \A id \in DOMAIN req :
        from_dict(update_one(store, id, to_dict(req[id]))[id]) = req[id]

\* C14: once start has returned and every write has reached the store, a
\* request whose stored row is QUEUED or PROCESSING, also one left so by a
\* crash, is held by the queue (in waiting or in processing), so it is
\* dispatched again; and no request is dispatched more than
\* max_retries + 1 times, over all process lifetimes.
C14_RequeuedNotLost ==
    /\ (is_running /\ inflight = {}) =>
          \A id \in pending(store) : InWaiting(id) \/ InProcessing(id)
    /\ \A id \in DOMAIN store :
          dispatches[id] <= store[id].max_retries + 1

\* C15: when a call of dequeue returns a request (its _persist_request is
\* over, whether the write succeeded or raised), the stored row of that
\* request has status PROCESSING.
C15_ReturnedIsStoredProcessing ==
    [][ \A w \in inflight :
          (w.by = "dequeue" /\ w \notin inflight') =>
              /\ w.request_id \in DOMAIN store'
              /\ store'[w.request_id].status = PROCESSING ]_vars

\* C16: every request in waiting is QUEUED with started_at unset, and every
\* request in processing is PROCESSING with started_at set and completed_at
\* unset, also after a fail that re-queues, a timeout sweep, a crash and a
\* recovery.
C16_HeldShape ==
    /\ \A i \in 1..Len(waiting) :
          /\ req[waiting[i]].status = QUEUED
          /\ req[waiting[i]].started_at = None
    /\ \A i \in 1..Len(processing) :
          /\ req[processing[i]].status = PROCESSING
          /\ req[processing[i]].started_at # None
          /\ req[processing[i]].completed_at = None

\* C16's case: a request that fail re-queued waits, after it had been in
\* processing, while another request is in processing.
C16_Witness ==
    \E a, b \in DOMAIN req :
        /\ InWaiting(a)
        /\ req[a].retry_count > 0
        /\ dispatches[a] > 0
        /\ InProcessing(b)

\* C17: every request with status COMPLETED, FAILED or TIMEOUT, in memory,
\* in a write to the store or in the store, has completed_at set.
C17_TerminalHasCompletedAt ==
    /\ \A id \in DOMAIN req :
          req[id].status \in Terminal => req[id].completed_at # None
    /\ \A w \in inflight :
          w.doc.status \in Terminal => w.doc.completed_at # None
    /\ \A id \in DOMAIN store :
          store[id].status \in Terminal => store[id].completed_at # None

\* C17's case: after a crash and a restart the store holds a row made
\* FAILED by fail and a row made TIMEOUT by the sweep.
C17_Witness ==
    /\ crashes = 1
    /\ is_running
    /\ \E id \in DOMAIN store : store[id].status = FAILED
    /\ \E id \in DOMAIN store : store[id].status = TIMEOUT

\* C18: the retry count of every request, in memory, in a write to the
\* store and in the store, is at least 0 and at most its max_retries, after
\* any fails, crashes and recoveries.
C18_RetriesWithinBudget ==
    /\ \A id \in DOMAIN req :
          0 <= req[id].retry_count /\ req[id].retry_count <= req[id].max_retries
    /\ \A w \in inflight :
          0 <= w.doc.retry_count /\ w.doc.retry_count <= w.doc.max_retries
    /\ \A id \in DOMAIN store :
          0 <= store[id].retry_count
             /\ store[id].retry_count <= store[id].max_retries

\* C18's case: a request has used up its budget (it is FAILED with retry
\* count max_retries), and its row has outlived a crash.
C18_Witness ==
    /\ crashes = 1
    /\ \E id \in DOMAIN store :
          /\ store[id].status = FAILED
          /\ store[id].retry_count = store[id].max_retries

\* C19: a call of complete(id) or fail(id) with an id that is not in
\* processing (never handed out, still waiting, already terminal or timed
\* out) changes nothing: waiting, processing, every request, the counters,
\* the store and the writes in flight stay as they were.
C19_NotHeldIsNoOp ==
    [][ \A id \in 0..(next_id - 1) :
          ( /\ \A i \in 1..Len(processing) : processing[i] # id
            /\ complete(id) \/ fail(id) ) =>
              UNCHANGED << waiting, processing, req, counters, store,
                           inflight >> ]_vars

\* C19's case: a caller can make its next call while one request is timed
\* out, one is waiting and none is in processing: complete and fail of
\* either id, and of the id 0 never handed out, are such calls, and this is
\* also the state they leave.
C19_Witness ==
    /\ is_running
    /\ CallersSuspended = 0
    /\ processing = << >>
    /\ \E a, b \in DOMAIN req :
          req[a].status = TIMEOUT /\ InWaiting(b)

\* The transitions of the request state machine
Transitions ==
    { << QUEUED, PROCESSING >>,
      << PROCESSING, COMPLETED >>,
      << PROCESSING, FAILED >>,
      << PROCESSING, QUEUED >>,
      << PROCESSING, TIMEOUT >> }

\* The step is one of the operation that makes the transition to `status`.
MadeBy(status) ==
    CASE status = PROCESSING -> dequeue
      [] status = COMPLETED -> \E id \in 0..(next_id - 1) : complete(id)
      [] status \in {FAILED, QUEUED} -> \E id \in 0..(next_id - 1) : fail(id)
      [] status = TIMEOUT -> recovery_wake \/ recovery_resume

\* C20: a request starts QUEUED, and every change of a request's status
\* made by a step is one of QUEUED->PROCESSING by dequeue,
\* PROCESSING->COMPLETED by complete, PROCESSING->FAILED or
\* PROCESSING->QUEUED by fail, PROCESSING->TIMEOUT by the timeout loop;
\* start with its recover_from_crash makes none.
C20_OnlyListedTransitions ==
    [][ /\ \A id \in DOMAIN req' \ DOMAIN req : req'[id].status = QUEUED
        /\ \A id \in DOMAIN req \cap DOMAIN req' :
              req'[id].status # req[id].status =>
                  /\ << req[id].status, req'[id].status >> \in Transitions
                  /\ MadeBy(req'[id].status) ]_vars

\* C20's case: a request went QUEUED, PROCESSING, QUEUED (fail), PROCESSING
\* and TIMEOUT (the sweep), in a process started after a crash.
C20_Witness ==
    /\ crashes = 1
    /\ \E id \in DOMAIN req :
          /\ req[id].status = TIMEOUT
          /\ req[id].retry_count > 0

----------------------------------------------------------------------------
(* The lifecycle manager *)

\* The step in which a start_model that waited for health returns to
\* task t
StartAnswers(t) ==
    /\ tasks[t].pc = "health"
    /\ tasks[t].op = "start_model"
    /\ tasks'[t].pc = "idle"

\* C21: start_model on a RUNNING backend returns True, spawns no child
\* and changes no state; on any other it sets STARTING and spawns the
\* child, or ends in ERROR and returns False if the spawn fails; a health
\* wait that ends within the timeout ends with RUNNING, started_at set
\* and current_model = the backend, and True is returned; one that times
\* out ends with ERROR and False; and True is returned only with the
\* backend RUNNING.
C21_StartContract ==
    /\ [][ \A t \in Tasks, b \in Backends :
             (\E r \in {None} \cup { Some(x) : x \in Resolutions } :
                 call_start_model(t, b, r)) =>
                 IF models[b].status = RUNNING
                 THEN /\ ret'.kind = "True"
                      /\ UNCHANGED << models, current_model, children,
                                      next_pid, tasks >>
                 ELSE \/ /\ tasks'[t].pc = "health"
                         /\ models'[b].status = STARTING
                         /\ models'[b].process = Some(next_pid)
                         /\ DOMAIN children' = DOMAIN children \cup {next_pid}
                         /\ children'[next_pid] = b
                      \/ /\ ret'.kind = "False"
                         /\ models'[b].status = ERROR
                         /\ children' = children ]_vars
    /\ [][ \A t \in Tasks :
             StartAnswers(t) =>
                 LET b == tasks[t].model
                 IN  IF now - tasks[t].start_time < health_timeout
                     THEN /\ ret'.kind = "True"
                          /\ models'[b].status = RUNNING
                          /\ models'[b].started_at # None
                          /\ current_model' = Some(b)
                     ELSE /\ ret'.kind = "False"
                          /\ models'[b].status = ERROR ]_vars
    /\ [](ret.op = "start_model" /\ ret.kind = "True" =>
              models[ret.call.model].status = RUNNING)

\* C21's case: a start has just returned True after its health wait, the
\* backend is RUNNING and current, and its child is alive.
C21_Witness ==
    /\ ret.op = "start_model"
    /\ ret.kind = "True"
    /\ \E b \in Backends :
          /\ ret.call.model = b
          /\ models[b].status = RUNNING
          /\ models[b].started_at # None
          /\ current_model = Some(b)
          /\ models[b].process # None
          /\ children[models[b].process[1]] = b

\* C22: stop_model on a STOPPED backend returns True and changes nothing;
\* on any other, a stop that returns True leaves the backend STOPPED with
\* no process handle and no live child, and current_model is None if it
\* named this backend and is unchanged if it did not.
C22_StopContract ==
    [][ \A t \in Tasks, b \in Backends :
          (\E g \in BOOLEAN : call_stop_model(t, b, g)) =>
              IF models[b].status = STOPPED
              THEN /\ ret'.kind = "True"
                   /\ UNCHANGED << models, current_model, children, next_pid >>
              ELSE ret'.kind = "True" =>
                       /\ models'[b].status = STOPPED
                       /\ models'[b].process = None
                       /\ \A pid \in DOMAIN children' : children'[pid] # b
                       /\ current_model' = IF current_model = Some(b) THEN None
                                           ELSE current_model ]_vars

\* C22's case: a stop of a backend in ERROR has just returned True while
\* the other backend is RUNNING and current: current_model stays.
C22_Witness ==
    /\ ret.op = "stop_model"
    /\ ret.kind = "True"
    /\ \E b, other \in Backends :
          /\ ret.call.model = b
          /\ models[b].status = STOPPED
          /\ models[b].stopped_at # None
          /\ models[other].status = RUNNING
          /\ current_model = Some(other)

\* C23: a graceful stop_model of a backend, called while the backend's
\* queue reports processing > 0, ends no child of the backend in the step
\* it is called in (no time has passed, so its timeout has not elapsed).
C23_GracefulStopDrains ==
    [][ \A t \in Tasks :
          ( /\ call_stop_model(t, queue_model_name, TRUE)
            /\ get_metrics.processing > 0 ) =>
              \A pid \in DOMAIN children :
                  children[pid] = queue_model_name => pid \in DOMAIN children' ]_vars

\* C24: a backend that holds a process handle is STARTING, RUNNING or
\* STOPPING; a backend that is STOPPED or in ERROR holds none.
C24_ProcessOnlyWhileLive ==
    \A b \in Backends :
        models[b].process # None =>
            models[b].status \in {STARTING, RUNNING, STOPPING}

\* C25: the calls of start_model, stop_model, switch_model and
\* switch_ocr_resolution are serialized: at no time are two of them inside
\* a lifecycle change (here: waiting for the health of a child they have
\* spawned), and no backend ever has two live children.
C25_Serialized ==
    /\ Cardinality({ t \in Tasks : tasks[t].pc = "health" }) <= 1
    /\ \A b \in Backends : Cardinality(ChildrenOf(manager_state, b)) <= 1

\* C26: while backends are changed through switch_model only, at most one
\* backend is RUNNING in every state, and when switch_model(target) has
\* returned True the target is RUNNING and current_model = target.
C26_SingleResident ==
    /\ Cardinality({ b \in Backends : models[b].status = RUNNING }) <= 1
    /\ ret.op = "switch_model" /\ ret.kind = "True" =>
           /\ models[ret.call.model].status = RUNNING
           /\ current_model = Some(ret.call.model)

\* C26's case: a switch_model has just returned True, its target is
\* RUNNING, the backend it replaced was stopped by it, and another caller
\* of switch_model waits for the lock.
C26_Witness ==
    /\ ret.op = "switch_model"
    /\ ret.kind = "True"
    /\ models[ret.call.model].status = RUNNING
    /\ \E b \in Backends \ {ret.call.model} :
          models[b].status = STOPPED /\ models[b].stopped_at # None
    /\ \E t \in Tasks : tasks[t].pc = "lock"

\* The OCR backend
OCR == "deepseek"

----------------------------------------------------------------------------
(* The auto-switcher *)

AS == "auto_switcher"

\* The step in which _check_and_switch calls switch_model: the call
\* suspends, or has returned already.
SwapInvoked ==
    /\ switcher.pc = "analyze"
    /\ tasks'[AS].pc # "idle" \/ (ret'.op = "switch_model" /\ ret'.task = AS)

\* The step in which the auto-switcher's switch_model returns
SwapReturns(result) ==
    /\ switcher.pc \in {"analyze", "switch"}
    /\ ret'.op = "switch_model"
    /\ ret'.task = AS
    /\ ret'.kind = result

\* C28: the auto-switcher calls switch_model only in a state where the
\* queue reports processing = 0.
C28_SwapOnlyWhenIdle ==
    [][ SwapInvoked => Len(processing) = 0 ]_vars

\* C28's case: the auto-switcher is inside switch_model, which it called
\* with the queue idle, while a request is in processing now, at a wake
\* of the loop later than its first.
C28_Witness ==
    /\ switcher.pc = "switch"
    /\ tasks[AS].op = "switch_model"
    /\ Len(processing) > 0
    /\ now >= minutes(switch_cooldown_minutes) + TickStep

\* C29: when the auto-switcher calls switch_model after a switch of its
\* that succeeded, at least switch_cooldown_minutes have passed since
\* that switch was completed.
C29_CooldownObeyed ==
    [][ SwapInvoked /\ last_switch # None =>
            now - last_switch[1] >= switch_cooldown_minutes * 60 ]_vars

\* C29's case: a second switch of the auto-switcher has just succeeded, a
\* cooldown after the first.
C29_Witness ==
    /\ ret.op = "switch_model"
    /\ ret.task = AS
    /\ ret.kind = "True"
    /\ ret.call.stopped = "True"
    /\ last_switch = Some(now)
    /\ now >= 2 * switch_cooldown_minutes * 60
    /\ \E b \in Backends : models[b].stopped_at # None /\ models[b].stopped_at[1] < now

\* C30: last_switch changes only in the step in which the auto-switcher's
\* switch_model returns True, and then to the time of that step; a cycle
\* that calls no switch_model (cooldown, no recommendation, queue busy)
\* changes neither last_switch nor any backend; and when switch_model
\* returns False the cycle is over, with last_switch as it was: the loop
\* is asleep for a full interval.
C30_LastSwitchOnlyOnSuccess ==
    /\ [][ last_switch' # last_switch =>
               SwapReturns("True") /\ last_switch' = Some(now) ]_vars
    /\ [][ (check_and_switch \/ (analyzed /\ ~SwapInvoked)) =>
               UNCHANGED << last_switch, models, current_model, children,
                            next_pid, switching_lock, tasks >> ]_vars
    /\ [][ SwapReturns("False") =>
               /\ last_switch' = last_switch
               /\ tasks'[AS].pc = "idle"
               /\ switcher'.pc = "sleep"
               /\ switcher'.sleep_until = now + switch_cooldown_minutes * 60 ]_vars

\* C30's case: after a switch that succeeded, a switch of the
\* auto-switcher has just returned False, and last_switch is still the
\* time of the earlier one.
C30_Witness ==
    /\ ret.op = "switch_model"
    /\ ret.task = AS
    /\ ret.kind = "False"
    /\ last_switch # None
    /\ last_switch[1] < now
    /\ switcher.pc = "sleep"

\* The highest count of a history, and the model switch_model is called
\* for in a step that calls it
Top(h) == CHOOSE n \in 0..MaxCount :
              (\E b \in Backends : h[b] = n) /\ (\A b \in Backends : h[b] <= n)
SwapTarget == IF tasks'[AS].pc # "idle" THEN tasks'[AS].model
              ELSE ret'.call.model

\* C31: analyze_patterns recommends a model iff the highest count of the
\* window is at least min_requests, and then a model of that count;
\* should_switch_model returns the recommended model iff there is one, it
\* is not the current model and its share of the requests is at least
\* 6/10, and nothing otherwise; and the auto-switcher calls switch_model
\* only for a model that is not the current one and meets both
\* thresholds in the history analyzed.
C31_SwitchPolicy ==
    /\ [](switcher.pc = "analyze" => \A h \in Histories, o \in KeyOrders :
            LET a == analyze_patterns(h, o)
                rec == a.recommended_model
                total == sum_values(h, Backends)
            IN  /\ rec # None <=> Top(h) >= min_requests_for_switch
                /\ rec # None => h[rec[1]] = Top(h)
                /\ \A cur \in {None} \cup { Some(b) : b \in Backends } :
                      LET r == should_switch_model(cur, a)
                      IN  /\ r # None <=> /\ rec # None
                                          /\ rec # cur
                                          /\ 10 * h[rec[1]] >= 6 * total
                          /\ r # None => r = rec)
    /\ [][ SwapInvoked => \A h \in Histories, o \in KeyOrders :
             analyzed_history(h, o) =>
                 /\ Some(SwapTarget) # current_model
                 /\ h[SwapTarget] = Top(h)
                 /\ h[SwapTarget] >= min_requests_for_switch
                 /\ 10 * h[SwapTarget] >= 6 * sum_values(h, Backends) ]_vars

\* C31's case: the auto-switcher is inside a switch_model for a model
\* other than the one that was resident, which that call has stopped.
C31_Witness ==
    /\ switcher.pc = "switch"
    /\ tasks[AS].op = "switch_model"
    /\ tasks[AS].stopped = "True"
    /\ \E b \in Backends \ {tasks[AS].model} : models[b].stopped_at # None

----------------------------------------------------------------------------
(* The queue under interleaving *)

\* C32: a step sets a request to TIMEOUT only if the request is in
\* processing and overdue in its current dispatch at that moment:
\* now - started_at > timeout_seconds.
C32_TimedOutOnlyIfOverdue ==
    [][ \A id \in DOMAIN req \cap DOMAIN req' :
          req'[id].status = TIMEOUT /\ req[id].status # TIMEOUT =>
              /\ \E i \in 1..Len(processing) : processing[i] = id
              /\ req[id].status = PROCESSING
              /\ req[id].started_at # None
              /\ now - req[id].started_at[1] > req[id].timeout_seconds ]_vars

\* C33: a request that a caller of dequeue has taken (it is in processing)
\* has its row in the store, written by its enqueue, and no request is in
\* memory in a later status than QUEUED before the store has a row of it.
C33_PersistedBeforeObserved ==
    \A id \in DOMAIN req :
        \/ id \in DOMAIN store
        \/ req[id].status = QUEUED /\ \A i \in 1..Len(processing) : processing[i] # id

\* C34: no request is admitted or dispatched before start has returned,
\* and when enqueue admits a request, every request whose stored row is
\* QUEUED or PROCESSING with retries left (counting one more for a
\* PROCESSING row) is a request of the queue: recovery has taken it in.
C34_RecoveryBeforeAdmission ==
    /\ [](~is_running => waiting = << >> /\ processing = << >>)
    /\ [][ (ret'.op = "enqueue" /\ ret'.kind = "id") =>
             \A id \in pending(store) :
                 LET row == store[id]
                     n == IF row.status = PROCESSING
                          THEN row.retry_count + 1 ELSE row.retry_count
                 IN  n < row.max_retries => id \in DOMAIN req ]_vars

\* C35: waiting is sorted by (priority rank, created_at): a request of a
\* higher priority comes first, and of two requests of one priority the
\* one created earlier comes first.
C35_WaitingSortedByKey ==
    \A i, j \in 1..Len(waiting) :
        i < j =>
            LET a == req[waiting[i]]
                b == req[waiting[j]]
            IN  \/ priority_order(a.priority) < priority_order(b.priority)
                \/ /\ priority_order(a.priority) = priority_order(b.priority)
                   /\ a.created_at <= b.created_at


\* C36: in every reachable state of one process lifetime every admitted
\* request is in exactly one place: once in waiting (QUEUED), or in
\* processing (PROCESSING), or terminal and in neither; no id occurs twice
\* in waiting, none is in waiting and in processing at once, and waiting and
\* processing hold admitted requests only.
C36_RequestConservation ==
    /\ \A i, j \in 1..Len(waiting) : waiting[i] = waiting[j] => i = j
    /\ \A i, j \in 1..Len(processing) : processing[i] = processing[j] => i = j
    /\ \A i \in 1..Len(waiting) : waiting[i] \in DOMAIN req
    /\ \A i \in 1..Len(processing) : processing[i] \in DOMAIN req
    /\ \A id \in DOMAIN req :
           /\ ~(InWaiting(id) /\ InProcessing(id))
           /\ InWaiting(id) <=> req[id].status = QUEUED
           /\ InProcessing(id) <=> req[id].status = PROCESSING
           /\ ~(InWaiting(id) \/ InProcessing(id)) <=> req[id].status \in Terminal

\* C36's case: the timeout loop has swept one request out of processing and
\* a fail has put another back into waiting.
C36_Witness ==
    \E a, b \in DOMAIN req :
        /\ req[a].status = TIMEOUT
        /\ InWaiting(b)
        /\ req[b].retry_count > 0

\* C37: a dequeue that returns a request takes it from waiting, never one
\* that is in processing (held by a worker or by a dequeue call still
\* suspended), and a request that was returned before is returned again
\* only if a fail re-queued it after each earlier dispatch: of this process
\* lifetime's requests every dispatch but the last was followed by a fail.
C37_NoDoubleDispatch ==
    [][ \A id \in DOMAIN dispatches :
            dispatches'[id] > dispatches[id] =>
                /\ id \in DOMAIN req
                /\ InWaiting(id)
                /\ ~InProcessing(id)
                /\ dispatches[id] = req[id].retry_count
                /\ ret' = Returns("dequeue", "id", id)
                /\ ~InWaiting(id)'
                /\ InProcessing(id)' ]_vars

\* C37's case: two dequeue calls are suspended in their writes at once, with
\* different requests, one of them dispatched for the second time.
C37_Witness ==
    \E v, w \in inflight :
        /\ v.by = "dequeue"
        /\ w.by = "dequeue"
        /\ v.request_id # w.request_id
        /\ dispatches[v.request_id] = 2

----------------------------------------------------------------------------
(* The manager under interleaving *)

\* C38: in every reachable state a backend whose status is RUNNING holds a
\* child process handle, also when stop_model was called on it while its
\* start_model was waiting for the health probe.
C38_RunningHoldsProcess ==
    \A b \in DOMAIN models :
        models[b].status = RUNNING => models[b].process # None

\* C39: a switch_ocr_resolution(r) that has returned True leaves the OCR
\* backend RUNNING with current_resolution = r, and one that has returned
\* False leaves current_resolution at the value it had when the call was
\* made, which was not r (a call made at r returns True at once): the next
\* call for r attempts the restart again.
C39_SwitchResolutionHonest ==
    ret.op = "switch_ocr_resolution" =>
        /\ ret.kind = "True" =>
               /\ models[OCR].status = RUNNING
               /\ models[OCR].current_resolution = ret.call.resolution
        /\ ret.kind = "False" =>
               models[OCR].current_resolution # ret.call.resolution

\* The step in which the auto-switcher's switch_model runs the body under
\* switching_lock: at once when the lock is free, or when the lock is
\* handed to it after a wait.
SwapLocked ==
    /\ \/ SwapInvoked /\ tasks'[AS].pc # "lock"
       \/ tasks[AS].pc = "lock" /\ tasks'[AS].pc # "lock"
    /\ tasks[AS].op = "switch_model" \/ switcher.pc = "analyze"

\* C40: a step of the auto-switcher's switch_model that ends a child
\* process is taken in a state where the queue has nothing in processing,
\* also when the call waited for switching_lock first.
C40_SwapStopsOnlyWhenIdle ==
    [][ ( /\ SwapLocked
          /\ \E pid \in DOMAIN children : pid \notin DOMAIN children' ) =>
            Len(processing) = 0 ]_vars
====
